---- MODULE Spec2Model ----
(***************************************************************************)
(* Embedding ingestion and similarity search of the Swifey backend.        *)
(*                                                                         *)
(* Two EmbeddingManager implementations share one "embeddings" table:      *)
(*   app    : src/app/models/embeddings.py  (create_text_embeddings,       *)
(*            delete_embeddings, search_similar_responses)                 *)
(*   legacy : src/models/embeddings.py      (create_embeddings,            *)
(*            search_similar_responses)                                    *)
(* and the route /search-similar-responses of src/app/api/embeddings.py.   *)
(* The app manager also keeps one photo_<i> row per profile photo          *)
(* (sync_profile_embeddings).                                              *)
(*                                                                         *)
(* AgentSystem of src/core/agent_system.py: analyze_message with its Redis *)
(* cache, generate_response, and submit_feedback beside the thread that    *)
(* flushes the feedback buffer.                                            *)
(*                                                                         *)
(* PUT /update of src/app/api/profile.py with the Redis copy of the        *)
(* profile, and the /chat websocket of src/app/api/chat_ws.py: connection  *)
(* manager, message counter and truth bombs.                               *)
(*                                                                         *)
(* Specifications:                                                         *)
(*   Spec         ingest calls of several server instances, interleaved    *)
(*   SpecKeys     the same for create_text_embeddings alone                *)
(*   SpecSearch   one instance: ingest and search handlers                 *)
(*   SpecDims     the app search on a table other encoders write too       *)
(*   SpecSync     profile photo changes and sync_profile_embeddings        *)
(*   SpecAgent    analyze_message, generate_response and the clock         *)
(*   SpecFeedback submit_feedback and the flush thread                     *)
(*   SpecProfile  update_user_profile, the cache and its expiry            *)
(*   SpecChat     the chat handlers of one server process                  *)
(*                                                                         *)
(* Vectors are small integer vectors whose norm is an integer, so that the *)
(* cosine similarity is an exact number of hundredths.                     *)
(***************************************************************************)
EXTENDS Integers, Sequences, FiniteSets, TLC

VARIABLES
    store,      \* rows of the "embeddings" table
    w,          \* per server instance: the ingest call it is running / ran last
    ncalls,     \* number of ingest calls started so far
    nappends,   \* number of upsert/insert statements executed so far
    resp,       \* what the last handler of the embedding managers returned
    photos,     \* profiles.photos of the user whose photos are synced
    redis,      \* the Redis cache of the agent system: key -> entry
    first,      \* per cache key: the analysis its first call returned, and its age
    aret,       \* what the last call of the agent system returned
    feedback_buffer,    \* AgentSystem.feedback_buffer, the ids of the queued feedback
    flusher,    \* the thread running _process_feedback_buffer
    caller,     \* the thread calling submit_feedback
    should_stop,        \* AgentSystem.should_stop
    profile,    \* the row of one user in the "profiles" table
    user_cache, \* the Redis entry user_profile:<user_id> of that user
    profile_reviews,    \* rows of the "profile_reviews" table
    nupdates,   \* number of /update calls handled so far
    pret,       \* what the last profile handler returned
    active_connections, \* ConnectionManager.active_connections: user -> websocket
    handlers,   \* the chat_websocket handlers started so far, by websocket
    truth_bombs,        \* rows of the "truth_bombs" table, by id
    conversation_count, \* the module's conversation_count dict
    chat_log    \* what the chat handlers have done so far (not program state)

agentVars == <<redis, first, aret>>
feedbackVars == <<feedback_buffer, flusher, caller, should_stop>>
profileVars == <<profile, user_cache, profile_reviews, nupdates, pret>>
chatVars == <<active_connections, handlers, truth_bombs, conversation_count, chat_log>>
apiVars == <<profileVars, chatVars>>

\* what the embedding managers' text ingestion and search never touch
outside == <<photos, agentVars, feedbackVars, apiVars>>

vars == <<store, w, ncalls, nappends, resp, photos, agentVars, feedbackVars, apiVars>>

\* ---------------------------------------------------------------- bounds
MaxCalls == 3       \* ingest calls started by the instances of Spec
MaxIngest == 2      \* insert statements executed by the one instance of SpecSearch
MaxPage == 2        \* per_page ranges over 0..MaxPage
MaxSync == 3        \* upserts of photo rows start below this count
CacheTTL == 2       \* AgentSystem.cache_ttl, in clock ticks
MaxFeedback == 2    \* submit_feedback calls
MaxUpdates == 3     \* calls of PUT /update
MaxSockets == 2     \* websocket connections accepted by /chat
MaxMsgs == 3        \* chat messages of the pair

\* ---------------------------------------------------------------- domains
Workers == {"s1", "s2"}          \* server instances sharing the table
Requesters == {"u1", "u3"}

\* ---------------------------------------------------------------- encoder
\* clip.tokenize raises for a text longer than the model's context.
EncodeFails(item) == item = "long"

\* model.encode_text(...).cpu().numpy().flatten().tolist(): a deterministic,
\* un-normalised vector per item.
Encode(item) ==
    CASE item = "hike"   -> <<3, 4>>
      [] item = "trail"  -> <<6, 8>>
      [] item = "coffee" -> <<4, 3>>
      [] item = "stamps" -> <<-3, 4>>
      [] OTHER           -> <<5, 0>>

RECURSIVE Dot(_, _)
Dot(a, b) == IF a = <<>> THEN 0 ELSE Head(a) * Head(b) + Dot(Tail(a), Tail(b))

\* np.linalg.norm on the vectors of the model (all have an integer norm)
Norm(v) == LET d == Dot(v, v) IN CHOOSE n \in 0..10 : n * n = d

\* float(np.dot(q, r) / (norm(q) * norm(r))), in hundredths
Cosine(q, r) == (Dot(q, r) * 100) \div (Norm(q) * Norm(r))

\* ---------------------------------------------------------------- record store
Key(r) == <<r.user_id, r.embedding_type>>

\* the filter without its .in_('embedding_type', ...) part
MatchingAnyType(rows, user_id, embedding_types) ==
    {r \in rows : r.user_id = user_id}

\* .eq('user_id', user_id).in_('embedding_type', embedding_types)
Matching(rows, user_id, embedding_types) ==
    {r \in rows : r.user_id = user_id /\ r.embedding_type \in embedding_types}

Live(k) == {r \in store : Key(r) = k}

\* delete_embeddings: the DELETE statement; an exception of the store is
\* caught and [] is returned, so the caller never sees the failure.
DeleteEmbeddings(rows, user_id, embedding_types, storeUp) ==
    IF storeUp THEN rows \ Matching(rows, user_id, embedding_types) ELSE rows

\* the rows create_text_embeddings / create_embeddings build for one call;
\* they carry no id, so the upsert inserts them and the store generates the
\* ids: <<n, i>> for row i of the n-th insert statement.
NewRows(c, n) ==
    {[id |-> <<n, i>>, user_id |-> c.req.user_id, agent_id |-> c.req.agent_id,
      embedding_type |-> c.req.embedding_type, embedding |-> c.embs[i]]
        : i \in 1..Len(c.embs)}

\* ---------------------------------------------------------------- ingest inputs
Req(u, a, t, items) ==
    [user_id |-> u, agent_id |-> a, embedding_type |-> t, items |-> items]

Requests ==
    { Req("u1", "ag1", "text", <<"hike">>),
      Req("u1", "ag1", "bio",  <<"coffee">>),
      Req("u2", "ag1", "text", <<"coffee", "stamps">>),
      Req("u2", "ag1", "text", <<"trail">>),
      Req("u2", "ag2", "text", <<"hike", "long">>) }

\* create_text_embeddings is also called with an empty batch
AppRequests == Requests \cup { Req("u1", "ag1", "text", <<>>) }

Idle == [pc |-> "idle"]
Finished(c) == c.pc \in {"done", "raised"}
Free(c) == c.pc = "idle" \/ Finished(c)

\* ---------------------------------------------------------------- app ingest
\* create_text_embeddings, entry: line 187-189
CTE_Start(wk, req) ==
    /\ Free(w[wk])
    /\ ncalls < MaxCalls
    /\ ncalls' = ncalls + 1
    /\ w' = [w EXCEPT ![wk] =
                [pc |-> "delete", impl |-> "app", req |-> req, id |-> ncalls + 1,
                 embs |-> <<>>, at |-> 0, del_ok |-> FALSE,
                 after |-> {w[o].id : o \in {x \in Workers : x # wk /\ Finished(w[x])}}]]
    /\ UNCHANGED <<store, nappends, resp, outside>>

\* lines 191-194: await self.delete_embeddings(user_id, [embedding_type])
CTE_Delete(wk) ==
    /\ w[wk].pc = "delete"
    /\ \E storeUp \in BOOLEAN :
          /\ store' = DeleteEmbeddings(store, w[wk].req.user_id,
                                       {w[wk].req.embedding_type}, storeUp)
          /\ w' = [w EXCEPT ![wk].pc = "encode", ![wk].del_ok = storeUp]
    /\ UNCHANGED <<ncalls, nappends, resp, outside>>

\* the vectors the loop of lines 196-213 has appended when it ends
EncodedPrefix(items) ==
    LET bad == {i \in 1..Len(items) : EncodeFails(items[i])}
        n   == IF bad = {} THEN Len(items)
               ELSE (CHOOSE i \in bad : \A j \in bad : i <= j) - 1
    IN  [i \in 1..n |-> Encode(items[i])]

\* lines 196-216: encode every item; an encoder exception leaves the loop and
\* is re-raised at 225-227; an empty embeddings_data raises at 216.
CTE_EncodeOutcome(items) ==
    IF \E i \in 1..Len(items) : EncodeFails(items[i]) THEN "raised"
    ELSE IF Len(items) = 0 THEN "raised"
    ELSE "upsert"

CTE_Encode(wk) ==
    /\ w[wk].pc = "encode"
    /\ w[wk].impl = "app"
    /\ w' = [w EXCEPT ![wk].embs = EncodedPrefix(w[wk].req.items),
                      ![wk].pc = CTE_EncodeOutcome(w[wk].req.items)]
    /\ UNCHANGED <<store, ncalls, nappends, resp, outside>>

\* lines 218-227: upsert of the whole list; a store exception is re-raised
CTE_Upsert(wk) ==
    /\ w[wk].pc = "upsert"
    /\ \/ /\ store' = store \cup NewRows(w[wk], nappends + 1)
          /\ nappends' = nappends + 1
          /\ w' = [w EXCEPT ![wk].pc = "done", ![wk].at = nappends + 1]
       \/ /\ w' = [w EXCEPT ![wk].pc = "raised"]
          /\ UNCHANGED <<store, nappends>>
    /\ UNCHANGED <<ncalls, resp, outside>>

\* ---------------------------------------------------------------- legacy ingest
\* create_embeddings, entry: lines 34-36
CE_Start(wk, req) ==
    /\ Free(w[wk])
    /\ ncalls < MaxCalls
    /\ ncalls' = ncalls + 1
    /\ w' = [w EXCEPT ![wk] =
                [pc |-> "encode", impl |-> "legacy", req |-> req, id |-> ncalls + 1,
                 embs |-> <<>>, at |-> 0, del_ok |-> FALSE,
                 after |-> {w[o].id : o \in {x \in Workers : x # wk /\ Finished(w[x])}}]]
    /\ UNCHANGED <<store, nappends, resp, outside>>

\* lines 38-74: encode every item; an exception is re-raised at 81-83
CE_EncodeOutcome(items) ==
    IF \E i \in 1..Len(items) : EncodeFails(items[i]) THEN "raised" ELSE "insert"

CE_Encode(wk) ==
    /\ w[wk].pc = "encode"
    /\ w[wk].impl = "legacy"
    /\ w' = [w EXCEPT ![wk].embs = EncodedPrefix(w[wk].req.items),
                      ![wk].pc = CE_EncodeOutcome(w[wk].req.items)]
    /\ UNCHANGED <<store, ncalls, nappends, resp, outside>>

\* lines 76-83: plain insert, nothing is deleted first
CE_Insert(wk) ==
    /\ w[wk].pc = "insert"
    /\ \/ /\ store' = store \cup NewRows(w[wk], nappends + 1)
          /\ nappends' = nappends + 1
          /\ w' = [w EXCEPT ![wk].pc = "done", ![wk].at = nappends + 1]
       \/ /\ w' = [w EXCEPT ![wk].pc = "raised"]
          /\ UNCHANGED <<store, nappends>>
    /\ UNCHANGED <<ncalls, resp, outside>>

\* ---------------------------------------------------------------- search helpers
IdLess(a, b) == a[1] < b[1] \/ (a[1] = b[1] /\ a[2] < b[2])

\* a scan answered from a copy of the table that still holds a deleted row
ScanDeletedRow(rows, asc) ==
    << [id |-> <<0, 1>>, user_id |-> "u2", agent_id |-> "ag1",
        embedding_type |-> "text", embedding |-> <<3, 4>>] >>

\* the rows of a SELECT without ORDER BY, as a list: the order is the
\* store's choice; two orders are modelled, by ascending and by descending id.
RECURSIVE Scan(_, _)
Scan(rows, asc) ==
    IF rows = {} THEN <<>>
    ELSE LET r == CHOOSE x \in rows :
                     \A y \in rows : y = x \/ (IF asc THEN IdLess(x.id, y.id)
                                                      ELSE IdLess(y.id, x.id))
         IN  <<r>> \o Scan(rows \ {r}, asc)

ScanOrders(rows) == IF Cardinality(rows) < 2 THEN {TRUE} ELSE BOOLEAN

\* one entry of `similarities` (relative_score, metadata and profile are
\* derived from these fields and are left out)
Entry(r, q) ==
    [response_id |-> r.user_id, similarity_score |-> Cosine(q, r.embedding),
     embedding_type |-> r.embedding_type, rid |-> r.id]

RECURSIVE InsertDesc(_, _)
InsertDesc(sorted, e) ==
    IF sorted = <<>> THEN <<e>>
    ELSE IF Head(sorted).similarity_score >= e.similarity_score
         THEN <<Head(sorted)>> \o InsertDesc(Tail(sorted), e)
         ELSE <<e>> \o sorted

\* results.sort(key=lambda x: x['similarity_score'], reverse=True): stable
\* the list without the sort
SortDescLeftUnsorted(seq) == seq

RECURSIVE SortDesc(_)
SortDesc(seq) ==
    IF seq = <<>> THEN <<>>
    ELSE InsertDesc(SortDesc(SubSeq(seq, 1, Len(seq) - 1)), seq[Len(seq)])

\* results[:per_page or 1]
TruncateAtLeastOne(seq, per_page) ==
    SubSeq(seq, 1, IF per_page = 0 THEN (IF Len(seq) > 0 THEN 1 ELSE 0)
                   ELSE IF per_page < Len(seq) THEN per_page ELSE Len(seq))

\* results[-per_page:]: the page cut from the end of the sorted list
TruncateTail(seq, per_page) ==
    SubSeq(seq, IF per_page < Len(seq) THEN Len(seq) - per_page + 1 ELSE 1, Len(seq))

\* results[:per_page], per_page >= 0
Truncate(seq, per_page) ==
    SubSeq(seq, 1, IF per_page < Len(seq) THEN per_page ELSE Len(seq))

RECURSIVE SumScores(_)
SumScores(seq) ==
    IF seq = <<>> THEN 0 ELSE Head(seq).similarity_score + SumScores(Tail(seq))

\* max(s['similarity_score'] for s in similarities), similarities non-empty
MaxScore(seq) ==
    LET S == {seq[i].similarity_score : i \in 1..Len(seq)}
    IN  CHOOSE m \in S : \A x \in S : x <= m

\* sum(...) / len(similarities) as the fraction num/den
MeanScore(seq) == [num |-> SumScores(seq), den |-> Len(seq)]

ZeroMean == [num |-> 0, den |-> 1]

Raised(op, requester, query, agent_id, filter, per_page, storeUp) ==
    [op |-> op, outcome |-> "raised", requester |-> requester, query |-> query,
     agent_id |-> agent_id, filter |-> filter,
     per_page |-> per_page, store_up |-> storeUp,
     results |-> <<>>, total_matches |-> 0, filtered_count |-> 0,
     max_similarity |-> 0, mean_similarity |-> ZeroMean]

\* ---------------------------------------------------------------- app search
\* `similarity > 0.1`, similarity in hundredths
AppThreshold == 10

\* the loop without the shape test of lines 351-353: a row of another
\* dimension is scored on the components it shares with the query
RECURSIVE AppSimilaritiesCoerced(_, _, _)
AppSimilaritiesCoerced(data, q, user_id) ==
    IF data = <<>> THEN <<>>
    ELSE LET r    == Head(data)
             rest == AppSimilaritiesCoerced(Tail(data), q, user_id)
         IN  IF r.user_id = user_id THEN rest
             ELSE IF Cosine(q, r.embedding) > AppThreshold
                  THEN <<Entry(r, q)>> \o rest
                  ELSE rest

\* lines 329-375: the loop that builds `similarities`
RECURSIVE AppSimilarities(_, _, _)
AppSimilarities(data, q, user_id) ==
    IF data = <<>> THEN <<>>
    ELSE LET r    == Head(data)
             rest == AppSimilarities(Tail(data), q, user_id)
         IN  IF r.user_id = user_id THEN rest
             ELSE IF Len(r.embedding) # Len(q) THEN rest
             ELSE IF Cosine(q, r.embedding) > AppThreshold
                  THEN <<Entry(r, q)>> \o rest
                  ELSE rest

\* lines 377-423: sort, truncate, aggregate
AppAnswer(similarities, query, user_id, per_page) ==
    LET results == Truncate(SortDesc(similarities), per_page)
    IN  [op |-> "app", outcome |-> "ok", requester |-> user_id, query |-> query,
         agent_id |-> "any", filter |-> "none",
         per_page |-> per_page, store_up |-> TRUE,
         results |-> results,
         total_matches |-> Len(similarities),
         filtered_count |-> Len(results),
         max_similarity |-> IF similarities # <<>> THEN MaxScore(similarities) ELSE 0,
         mean_similarity |-> IF similarities # <<>> THEN MeanScore(similarities)
                             ELSE ZeroMean]

\* the method without its `else` branch of lines 405-407: max() of an empty
\* list raises
AppResponseEmptyRaises(data, query, user_id, per_page) ==
    LET similarities == AppSimilarities(data, Encode(query), user_id)
    IN  IF similarities = <<>>
        THEN Raised("app", user_id, query, "any", "none", per_page, TRUE)
        ELSE AppAnswer(similarities, query, user_id, per_page)

\* lines 329-423
AppResponse(data, query, user_id, per_page) ==
    AppAnswer(AppSimilarities(data, Encode(query), user_id), query, user_id, per_page)

Queries == {"hike", "stamps"}

\* the method with a handler that answers a failed query like an empty table
AppSearchSwallowsFailure(user_id, query, per_page) ==
    /\ \/ \E storeUp \in BOOLEAN :
             /\ EncodeFails(query) \/ ~storeUp
             /\ resp' = IF EncodeFails(query)
                        THEN Raised("app", user_id, query, "any", "none", per_page, storeUp)
                        ELSE [AppResponse(<<>>, query, user_id, per_page)
                                  EXCEPT !.store_up = FALSE]
       \/ \E asc \in ScanOrders(store) :
             /\ ~EncodeFails(query)
             /\ resp' = AppResponse(Scan(store, asc), query, user_id, per_page)
    /\ UNCHANGED <<store, w, ncalls, nappends, outside>>

\* EmbeddingManager.search_similar_responses of src/app/models (agent_id and
\* filters are only echoed resp. ignored by the method)
AppSearch(user_id, query, per_page) ==
    /\ \/ \E storeUp \in BOOLEAN :
             /\ EncodeFails(query) \/ ~storeUp
             /\ resp' = Raised("app", user_id, query, "any", "none", per_page, storeUp)
       \/ \E asc \in ScanOrders(store) :
             /\ ~EncodeFails(query)
             /\ resp' = AppResponse(Scan(store, asc), query, user_id, per_page)
    /\ UNCHANGED <<store, w, ncalls, nappends, outside>>

\* ---------------------------------------------------------------- legacy search
Agents == {"ag1", "ag2"}
Filters == {"none", "text"}     \* filters = None / {"embedding_type": "text"}

\* lines 171-186: .eq('agent_id', agent_id) and one .eq per filter
LegacyFiltered(rows, agent_id, filter) ==
    {r \in rows : r.agent_id = agent_id /\ (filter = "none" \/ r.embedding_type = filter)}

\* lines 203-251: every row of the right dimension is appended
RECURSIVE LegacySimilarities(_, _)
LegacySimilarities(data, q) ==
    IF data = <<>> THEN <<>>
    ELSE LET r    == Head(data)
             rest == LegacySimilarities(Tail(data), q)
         IN  IF Len(r.embedding) # Len(q) THEN rest
             ELSE <<Entry(r, q)>> \o rest

\* lines 261-264: relative_score = score / max_score if max_score > 0 else 0.0,
\* kept when relative_score >= 0.5
RelativeKept(e, max_score) ==
    max_score > 0 /\ 2 * e.similarity_score >= max_score

RECURSIVE KeepRelative(_, _)
KeepRelative(seq, max_score) ==
    IF seq = <<>> THEN <<>>
    ELSE IF RelativeKept(Head(seq), max_score)
         THEN <<Head(seq)>> \o KeepRelative(Tail(seq), max_score)
         ELSE KeepRelative(Tail(seq), max_score)

\* lines 254-288
LegacyResponse(data, query, requester, agent_id, filter, per_page) ==
    LET q            == Encode(query)
        similarities == LegacySimilarities(data, q)
        max_score    == IF similarities # <<>> THEN MaxScore(similarities) ELSE 0
        results      == IF similarities # <<>>
                        THEN Truncate(SortDesc(KeepRelative(similarities, max_score)),
                                      per_page)
                        ELSE <<>>
    IN  [op |-> "legacy", outcome |-> "ok", requester |-> requester, query |-> query,
         agent_id |-> agent_id, filter |-> filter,
         per_page |-> per_page, store_up |-> TRUE,
         results |-> results,
         total_matches |-> Len(similarities),
         filtered_count |-> Len(results),
         max_similarity |-> max_score,
         mean_similarity |-> IF similarities # <<>> THEN MeanScore(similarities)
                             ELSE ZeroMean]

\* EmbeddingManager.search_similar_responses of src/models: the method has no
\* user_id parameter; `requester` is the user on whose behalf it is called,
\* and the answer cannot depend on it.
LegacySearch(requester, query, agent_id, filter, per_page) ==
    /\ LET rows == LegacyFiltered(store, agent_id, filter)
       IN  \/ \E storeUp \in BOOLEAN :
                 /\ EncodeFails(query) \/ ~storeUp
                 /\ resp' = Raised("legacy", requester, query, agent_id, filter,
                                   per_page, storeUp)
           \/ \E asc \in ScanOrders(rows) :
                 /\ ~EncodeFails(query)
                 /\ resp' = LegacyResponse(Scan(rows, asc), query, requester,
                                           agent_id, filter, per_page)
    /\ UNCHANGED <<store, w, ncalls, nappends, outside>>

\* ---------------------------------------------------------------- search route
PerPageMin == 1
PerPageMax == 100

\* POST /search-similar-responses: SearchSimilarRequest validates per_page
\* (the request names no user);
\* the handler then calls the app manager without its required user_id
\* argument, the TypeError is caught and answered with HTTP 500.
EndpointOutcome(per_page) ==
    IF per_page < PerPageMin \/ per_page > PerPageMax THEN "http422" ELSE "http500"

SearchEndpoint(query, per_page) ==
    /\ resp' = [Raised("endpoint", "unknown", query, "any", "none", per_page, TRUE)
                    EXCEPT !.outcome = EndpointOutcome(per_page)]
    /\ UNCHANGED <<store, w, ncalls, nappends, outside>>

\* ---------------------------------------------------------------- agent system: state
Personas == {"coach", "friend"}     \* the ids of AgentSystem.personas
Messages == {"hello", "bye"}

\* f"message:{persona_id}:{md5(message)}": md5 separates the messages
CacheKey(message, persona_id) == <<"message", persona_id, message>>
CacheKeys == {CacheKey(m, p) : m \in Messages, p \in Personas}

\* a key Redis does not hold (redis_client.get returns None)
Absent == [value |-> "", ttl |-> 0]

\* the place of an analysis in the return of a call that raised
NoAnalysis == [emotional_response |-> ""]

\* no call of the key is inside its TTL window
NoCall == [calls |-> 0, result |-> NoAnalysis, age |-> 0]

\* the thread of _process_feedback_buffer, started by __init__
FlusherStarted == [pc |-> "loop", batch |-> <<>>]
CallerIdle == [pc |-> "idle", n |-> 0]

\* ---------------------------------------------------------------- profile state
\* a column that is NULL / a request field that is None
Null == "<null>"
NullList == <<"<null>">>

\* UpdateProfileRequest: the fields of the model that are kept here (email,
\* gender, ... are handled like geographical_location)
RequestFields == {"name", "bio", "photos", "geographical_location"}

\* the row auth.py inserts with {"email": ...}: every other column is NULL
NewProfile ==
    [name |-> Null, bio |-> Null, photos |-> NullList,
     geographical_location |-> Null, verification_status |-> Null]

NotCached == [present |-> FALSE, row |-> NewProfile]

\* ---------------------------------------------------------------- chat state
ChatUsers == {"u1", "u2", "u3"}

\* sorted([user_id1, user_id2]) on the ids of the model
UserRank(u) == CASE u = "u1" -> 1 [] u = "u2" -> 2 [] OTHER -> 3

Sorted2(a, b) == IF UserRank(a) <= UserRank(b) THEN <<a, b>> ELSE <<b, a>>

\* get_hash: sha256 of the two ids in sorted order, the same for both
\* directions of a conversation
GetHash(user_id1, user_id2) == Sorted2(user_id1, user_id2)

\* u1 and u2 have a conversation; u3 is a user outside of it
ChatPair == {"u1", "u2"}
Hashes == {GetHash("u1", "u2")}

\* a hash that is not in conversation_count
NotCounted == [known |-> FALSE, interaction_freq |-> 0, current_count |-> 0]

NoChat == [nmsg |-> 0, triggered |-> {}]

\* ---------------------------------------------------------------- specification
NoResponse == [op |-> "none", outcome |-> "none"]

Init ==
    /\ store = {}
    /\ w = [wk \in Workers |-> Idle]
    /\ ncalls = 0
    /\ nappends = 0
    /\ resp = NoResponse
    /\ photos = <<>>
    /\ redis = [k \in CacheKeys |-> Absent]
    /\ first = [k \in CacheKeys |-> NoCall]
    /\ aret = NoResponse
    /\ feedback_buffer = <<>>
    /\ flusher = FlusherStarted
    /\ caller = CallerIdle
    /\ should_stop = FALSE
    /\ profile = NewProfile
    /\ user_cache = NotCached
    /\ profile_reviews = {}
    /\ nupdates = 0
    /\ pret = NoResponse
    /\ active_connections = [u \in ChatUsers |-> 0]
    /\ handlers = <<>>
    /\ truth_bombs = <<>>
    /\ conversation_count = [h \in Hashes |-> NotCounted]
    /\ chat_log = NoChat

\* several server instances on one table: the ingest calls interleave at
\* their store statements
Next ==
    \/ \E wk \in Workers, req \in AppRequests : CTE_Start(wk, req)
    \/ \E wk \in Workers : CTE_Delete(wk)
    \/ \E wk \in Workers : CTE_Encode(wk)
    \/ \E wk \in Workers : CTE_Upsert(wk)
    \/ \E wk \in Workers, req \in Requests : CE_Start(wk, req)
    \/ \E wk \in Workers : CE_Encode(wk)
    \/ \E wk \in Workers : CE_Insert(wk)

Spec == Init /\ [][Next]_vars

\* the app manager's ingest alone, on several instances
NextKeys ==
    \/ \E wk \in Workers, req \in AppRequests : CTE_Start(wk, req)
    \/ \E wk \in Workers : CTE_Delete(wk)
    \/ \E wk \in Workers : CTE_Encode(wk)
    \/ \E wk \in Workers : CTE_Upsert(wk)

SpecKeys == Init /\ [][NextKeys]_vars

\* ---------------------------------------------------------------- one instance
\* One server instance: neither ingest method suspends between its store
\* statements, so a handler runs from entry to return as one step, and resp
\* is what the handler returned.
Returned(op, outcome) == [op |-> op, outcome |-> outcome]

CallOf(req) == [req |-> req, embs |-> EncodedPrefix(req.items)]

\* create_text_embeddings, lines 187-227, entry to return
CreateTextEmbeddings(req) ==
    /\ nappends < MaxIngest
    /\ \E delUp \in BOOLEAN, upUp \in BOOLEAN :
          LET afterDelete == DeleteEmbeddings(store, req.user_id,
                                              {req.embedding_type}, delUp)
              stored      == CTE_EncodeOutcome(req.items) = "upsert" /\ upUp
          IN  /\ store' = IF stored
                          THEN afterDelete \cup NewRows(CallOf(req), nappends + 1)
                          ELSE afterDelete
              /\ nappends' = IF stored THEN nappends + 1 ELSE nappends
              /\ resp' = Returned("create_text_embeddings",
                                  IF stored THEN "done" ELSE "raised")
    /\ UNCHANGED <<w, ncalls, outside>>

\* create_embeddings, lines 34-83, entry to return
CreateEmbeddings(req) ==
    /\ nappends < MaxIngest
    /\ \E upUp \in BOOLEAN :
          LET stored == CE_EncodeOutcome(req.items) = "insert" /\ upUp
          IN  /\ store' = IF stored
                          THEN store \cup NewRows(CallOf(req), nappends + 1)
                          ELSE store
              /\ nappends' = IF stored THEN nappends + 1 ELSE nappends
              /\ resp' = Returned("create_embeddings",
                                  IF stored THEN "done" ELSE "raised")
    /\ UNCHANGED <<w, ncalls, outside>>

\* The table is also written outside these managers (the search parses rows
\* stored as strings and tests every row's shape, lines 335-353): a row whose
\* vector was made by an encoder of another dimension.
OtherEncoderRow(n) ==
    [id |-> <<n, 1>>, user_id |-> "u2", agent_id |-> "ag1",
     embedding_type |-> "text", embedding |-> <<0, 3, 4>>]

InsertOtherEncoderRow ==
    /\ nappends < MaxIngest
    /\ store' = store \cup {OtherEncoderRow(nappends + 1)}
    /\ nappends' = nappends + 1
    /\ resp' = Returned("other_writer", "done")
    /\ UNCHANGED <<w, ncalls, outside>>

NextSearch ==
    \/ \E req \in AppRequests : CreateTextEmbeddings(req)
    \/ \E req \in Requests : CreateEmbeddings(req)
    \/ \E u \in Requesters, q \in Queries \cup {"long"}, p \in 0..MaxPage :
          AppSearch(u, q, p)
    \/ \E q \in Queries, a \in Agents, f \in Filters, p \in 0..MaxPage :
          LegacySearch("u1", q, a, f, p)
    \/ \E q \in Queries, p \in 0..MaxPage : SearchEndpoint(q, p)

SpecSearch == Init /\ [][NextSearch]_vars

\* the app manager on a table that other encoders write too
NextDims ==
    \/ \E req \in AppRequests : CreateTextEmbeddings(req)
    \/ InsertOtherEncoderRow
    \/ \E u \in Requesters, q \in Queries \cup {"long"}, p \in 0..MaxPage :
          AppSearch(u, q, p)

SpecDims == Init /\ [][NextDims]_vars

\* ---------------------------------------------------------------- profile photos
\* sync_profile_embeddings of src/app/models, for one user. The rows it
\* writes carry the photo's path; one server instance, the method runs from
\* entry to return as one step.
SyncUser == "u1"

\* values of profiles.photos
PhotoLists ==
    { <<>>, <<"a.jpg">>, <<"b.jpg">>, <<"a.jpg", "b.jpg">>, <<"b.jpg", "a.jpg">> }

\* f"photo_{idx}", idx counted from 0
PhotoTypes == <<"photo_0", "photo_1">>
PhotoType(idx) == PhotoTypes[idx + 1]

\* model.encode_image(...).cpu().numpy().flatten().tolist()
EncodeImage(photo_path) ==
    CASE photo_path = "a.jpg" -> <<3, 4>>
      [] OTHER                -> <<4, 3>>

\* the photos column of the user's profile row is set: by update_user_profile
\* while it is empty, afterwards by the outcome of a review
ProfilePhotosChange(new) ==
    /\ new # photos
    /\ photos' = new
    /\ resp' = Returned("update_photos", "done")
    /\ UNCHANGED <<store, w, ncalls, nappends, agentVars, feedbackVars, apiVars>>

\* lines 71-75: .eq('user_id', user_id).like('embedding_type', 'photo_%')
ExistingPhotoRows(rows, user_id) ==
    {r \in rows : r.user_id = user_id
                  /\ r.embedding_type \in {PhotoTypes[i] : i \in 1..Len(PhotoTypes)}}

\* lines 77-81: the dict comprehension keeps, per photo_path, the last row
\* of the result list
ExistingPaths(data) ==
    [p \in {data[i].photo_path : i \in 1..Len(data)} |->
        LET at == {i \in 1..Len(data) : data[i].photo_path = p}
        IN  data[CHOOSE i \in at : \A j \in at : j <= i]]

\* lines 85-99: the rows of removed paths are deleted by their embedding_type
DeleteRemovedPaths(rows, user_id, data, current, storeUp) ==
    LET existing_paths  == ExistingPaths(data)
        paths_to_delete == (DOMAIN existing_paths) \ {current[i] : i \in 1..Len(current)}
        types           == {existing_paths[p].embedding_type : p \in paths_to_delete}
    IN  [rows    |-> IF paths_to_delete # {}
                     THEN DeleteEmbeddings(rows, user_id, types, storeUp)
                     ELSE rows,
         deleted |-> Cardinality(paths_to_delete)]

\* lines 127-134
PhotoRecord(n, user_id, idx, photo_path) ==
    [id |-> <<n, 1>>, user_id |-> user_id, agent_id |-> "none",
     embedding_type |-> PhotoType(idx), embedding |-> EncodeImage(photo_path),
     photo_path |-> photo_path]

\* lines 104-147, from photo idx on: a photo whose download fails is skipped;
\* otherwise the slot's rows are deleted and the record is upserted; an
\* exception of the upsert is printed and the loop continues
RECURSIVE SyncPhotos(_, _, _, _, _, _, _, _)
SyncPhotos(rows, n, created, idx, current, fetched, delUp, upUp) ==
    IF idx = Len(current) THEN [rows |-> rows, n |-> n, created |-> created]
    ELSE IF (idx + 1) \notin fetched
         THEN SyncPhotos(rows, n, created, idx + 1, current, fetched, delUp, upUp)
         ELSE LET cleared == DeleteEmbeddings(rows, SyncUser, {PhotoType(idx)}, delUp)
              IN  IF upUp
                  THEN SyncPhotos(cleared \cup {PhotoRecord(n + 1, SyncUser, idx,
                                                            current[idx + 1])},
                                  n + 1, created + 1, idx + 1, current, fetched,
                                  delUp, upUp)
                  ELSE SyncPhotos(cleared, n, created, idx + 1, current, fetched,
                                  delUp, upUp)

\* the returned dict; deletes_ok tells whether the call's DELETE statements
\* reached the store
SyncReturn(outcome, total, deleted, created, delUp) ==
    [op |-> "sync", outcome |-> outcome, photos_total |-> total,
     embeddings_deleted |-> deleted, embeddings_created |-> created,
     deletes_ok |-> delUp]

\* sync_profile_embeddings(SyncUser), lines 56-158
SyncProfileEmbeddings ==
    /\ nappends < MaxSync
    /\ \E profUp \in BOOLEAN, selUp \in BOOLEAN, delUp \in BOOLEAN, upUp \in BOOLEAN,
          asc \in ScanOrders(ExistingPhotoRows(store, SyncUser)) :
       \E fetched \in SUBSET (1..Len(photos)) :
          LET current == IF profUp THEN photos ELSE <<>>    \* fetch_profile_photos
              data    == Scan(ExistingPhotoRows(store, SyncUser), asc)
              removed == DeleteRemovedPaths(store, SyncUser, data, current, delUp)
              synced  == SyncPhotos(removed.rows, nappends, 0, 0, current, fetched,
                                    delUp, upUp)
          IN  IF current = <<>>
              THEN /\ resp' = SyncReturn("success", 0, 0, 0, delUp)
                   /\ UNCHANGED <<store, nappends>>
              ELSE IF ~selUp
              THEN /\ resp' = SyncReturn("raised", 0, 0, 0, delUp)
                   /\ UNCHANGED <<store, nappends>>
              ELSE /\ store' = synced.rows
                   /\ nappends' = synced.n
                   /\ resp' = SyncReturn("success", Len(current), removed.deleted,
                                         synced.created, delUp)
    /\ UNCHANGED <<w, ncalls, photos, agentVars, feedbackVars, apiVars>>

NextSync ==
    \/ \E new \in PhotoLists : ProfilePhotosChange(new)
    \/ SyncProfileEmbeddings

SpecSync == Init /\ [][NextSync]_vars

\* ---------------------------------------------------------------- agent system
\* AgentSystem of src/core. The routes call it from `async def` handlers
\* without awaiting inside, so one call runs from entry to return as a step.
embeddingVars == <<store, w, ncalls, nappends, resp, photos>>

\* response['choices'][0]['text'] of the analysis prompt
LLMTexts ==
    { "{\"emotional_response\": \"calm\"}",
      "{ \"emotional_response\" : \"calm\" }",
      "They sound glad." }

\* json.loads raises on a text that is not JSON
JsonValid(text) == text # "They sound glad."

\* json.loads
JsonLoads(text) ==
    CASE text = "{\"emotional_response\": \"calm\"}"    -> [emotional_response |-> "calm"]
      [] text = "{ \"emotional_response\" : \"calm\" }" -> [emotional_response |-> "calm"]
      [] text = "{\"emotional_response\": \"neutral\"}" -> [emotional_response |-> "neutral"]
      [] OTHER                                          -> [emotional_response |-> "warm"]

\* json.dumps: one text per value, with the default separators
JsonDumps(analysis) ==
    CASE analysis.emotional_response = "calm"    -> "{\"emotional_response\": \"calm\"}"
      [] analysis.emotional_response = "neutral" -> "{\"emotional_response\": \"neutral\"}"
      [] OTHER                                   -> "{\"emotional_response\": \"warm\"}"

\* persona.emotional_baseline.get('default', 'neutral')
EmotionalBaseline(persona_id) == IF persona_id = "coach" THEN "neutral" ELSE "warm"

\* _generate_fallback_analysis, lines 280-293
FallbackAnalysis(persona_id) == [emotional_response |-> EmotionalBaseline(persona_id)]

\* what one run of _generate_analysis meets: the LLM answers with a text, the
\* LLM call raises, or an exception leaves the method
GenOutcomes ==
    {[kind |-> "text", text |-> t] : t \in LLMTexts}
        \cup {[kind |-> "llm_raises", text |-> ""], [kind |-> "raises", text |-> ""]}

\* _generate_analysis, lines 109-143
GenerateAnalysis(persona_id, g) ==
    IF g.kind = "raises" THEN [raised |-> TRUE, analysis |-> NoAnalysis]
    ELSE IF g.kind = "text" /\ JsonValid(g.text)
         THEN [raised |-> FALSE, analysis |-> JsonLoads(g.text)]
         ELSE [raised |-> FALSE, analysis |-> FallbackAnalysis(persona_id)]

\* the method without its cache lookup
CacheNeverHit(entry) == FALSE

\* lines 93-94: `if cached_result:`
CacheHit(entry) == entry.ttl > 0 /\ entry.value # ""

\* analyze_message, lines 90-107: the return value and the cache after it
AnalyzeCall(message, persona_id, g) ==
    LET k     == CacheKey(message, persona_id)
        entry == redis[k]
        gen   == GenerateAnalysis(persona_id, g)
    IN  IF CacheHit(entry)
        THEN [raised |-> FALSE, result |-> JsonLoads(entry.value),
              generated |-> FALSE, redis |-> redis]
        ELSE IF gen.raised
        THEN [raised |-> TRUE, result |-> NoAnalysis, generated |-> TRUE, redis |-> redis]
        ELSE [raised |-> FALSE, result |-> gen.analysis, generated |-> TRUE,
              redis |-> [redis EXCEPT ![k] = [value |-> JsonDumps(gen.analysis),
                                             ttl |-> CacheTTL]]]

\* the calls of a key inside the TTL window its first call opened
Witnessed(k, call) ==
    IF call.raised THEN first
    ELSE IF first[k].calls = 0
         THEN [first EXCEPT ![k] = [calls |-> 1, result |-> call.result, age |-> 0]]
         ELSE [first EXCEPT ![k].calls = 2]

AnalyzeMessage(message, persona_id) ==
    /\ \E g \in GenOutcomes :
          LET call == AnalyzeCall(message, persona_id, g)
          IN  /\ redis' = call.redis
              /\ first' = Witnessed(CacheKey(message, persona_id), call)
              /\ aret' = [op |-> "analyze_message",
                          outcome |-> IF call.raised THEN "raised" ELSE "returned",
                          persona_id |-> persona_id, message |-> message,
                          result |-> call.result, generated |-> call.generated]
    /\ UNCHANGED <<embeddingVars, feedbackVars, apiVars>>

\* one second passes: Redis expires the keys whose TTL has run out
Tick ==
    /\ \E k \in CacheKeys : redis[k].ttl > 0
    /\ redis' = [k \in CacheKeys |->
                    IF redis[k].ttl <= 1 THEN Absent
                    ELSE [redis[k] EXCEPT !.ttl = redis[k].ttl - 1]]
    /\ first' = [k \in CacheKeys |->
                    IF first[k].calls = 0 \/ first[k].age + 1 >= CacheTTL THEN NoCall
                    ELSE [first[k] EXCEPT !.age = first[k].age + 1]]
    /\ UNCHANGED <<aret, embeddingVars, feedbackVars, apiVars>>

\* response['choices'][0]['text'] of the response prompt, or the call raises
LLMReplies ==
    { [raises |-> FALSE, text |-> " Happy to help. "],
      [raises |-> FALSE, text |-> "   "],
      [raises |-> TRUE,  text |-> ""] }

\* str.strip
Strip(text) ==
    CASE text = " Happy to help. " -> "Happy to help."
      [] text = "   "              -> ""
      [] OTHER                     -> text

\* what persona.get_response_template() returns
Templates == {"", "Tell me more."}

\* _get_fallback_response, lines 295-298
FallbackResponse(template) ==
    IF template # "" THEN template
    ELSE "I understand and acknowledge your message."

\* calculate_truth_level without a truth meter of the persona: 1.0, in hundredths
DefaultTruthLevel == 100

\* the returned dict, with what happened in the call; template is the
\* persona's response template when the fallback was asked for
ResponseReturn(outcome, persona_id, message, content, a_raised, l_raised, template) ==
    [op |-> "generate_response", outcome |-> outcome, persona_id |-> persona_id,
     message |-> message, content |-> content, truth_level |-> DefaultTruthLevel,
     analysis_raised |-> a_raised, llm_raised |-> l_raised,
     template |-> template]

\* generate_response, lines 145-193; `given` tells whether the caller passed
\* an analysis
GenerateResponse(persona_id, message, given) ==
    /\ \E g \in GenOutcomes, reply \in LLMReplies, template \in Templates :
          LET call == IF given
                      THEN [raised |-> FALSE, result |-> FallbackAnalysis(persona_id),
                            generated |-> FALSE, redis |-> redis]
                      ELSE AnalyzeCall(message, persona_id, g)
          IN  /\ redis' = call.redis
              /\ first' = IF given THEN first
                          ELSE Witnessed(CacheKey(message, persona_id), call)
              /\ aret' = IF call.raised
                         THEN ResponseReturn("raised", persona_id, message, "",
                                             TRUE, FALSE, "")
                         ELSE IF reply.raises
                         THEN ResponseReturn("returned", persona_id, message,
                                             FallbackResponse(template),
                                             FALSE, TRUE, template)
                         ELSE ResponseReturn("returned", persona_id, message,
                                             Strip(reply.text), FALSE, FALSE, "")
    /\ UNCHANGED <<embeddingVars, feedbackVars, apiVars>>

\* the (message, persona_id) pairs the system is called with
AgentCalls == {<<"hello", "coach">>, <<"bye", "friend">>}

NextAgent ==
    \/ \E c \in AgentCalls : AnalyzeMessage(c[1], c[2])
    \/ \E c \in AgentCalls, given \in BOOLEAN : GenerateResponse(c[2], c[1], given)
    \/ Tick

SpecAgent == Init /\ [][NextAgent]_vars

\* ---------------------------------------------------------------- feedback
\* submit_feedback in the calling thread and _process_feedback_buffer in the
\* thread __init__ started, interleaving at their operations on the queue.
BatchLimit == 100

\* lines 206-217: feedback_buffer.put(feedback)
SubmitPut ==
    /\ caller.pc \in {"idle", "returned"}
    /\ caller.n < MaxFeedback
    /\ feedback_buffer' = Append(feedback_buffer, caller.n + 1)
    /\ caller' = [pc |-> "update", n |-> caller.n + 1]
    /\ UNCHANGED <<flusher, should_stop, embeddingVars, agentVars, apiVars>>

\* lines 219-226: the persona is updated and the call returns
SubmitReturn ==
    /\ caller.pc = "update"
    /\ caller' = [caller EXCEPT !.pc = "returned"]
    /\ UNCHANGED <<feedback_buffer, flusher, should_stop, embeddingVars, agentVars, apiVars>>

\* lines 247-249: the loop test, and a new feedback_batch
FlushLoop ==
    /\ flusher.pc = "loop"
    /\ flusher' = IF should_stop THEN [pc |-> "exited", batch |-> <<>>]
                  ELSE [pc |-> "drain", batch |-> <<>>]
    /\ UNCHANGED <<feedback_buffer, caller, should_stop, embeddingVars, agentVars, apiVars>>

\* lines 250-251: one round of the inner loop
FlushGet ==
    /\ flusher.pc = "drain"
    /\ feedback_buffer # <<>>
    /\ Len(flusher.batch) < BatchLimit
    /\ flusher' = [flusher EXCEPT !.batch = Append(flusher.batch, Head(feedback_buffer))]
    /\ feedback_buffer' = Tail(feedback_buffer)
    /\ UNCHANGED <<caller, should_stop, embeddingVars, agentVars, apiVars>>

\* lines 250, 253: the inner loop ends
FlushDrained ==
    /\ flusher.pc = "drain"
    /\ feedback_buffer = <<>> \/ Len(flusher.batch) >= BatchLimit
    /\ flusher' = [flusher EXCEPT !.pc = IF flusher.batch # <<>> THEN "insert"
                                         ELSE "wait"]
    /\ UNCHANGED <<feedback_buffer, caller, should_stop, embeddingVars, agentVars, apiVars>>

\* lines 254-260: the batch is inserted; an exception is logged and the
\* loop starts over at once
FlushInsert ==
    /\ flusher.pc = "insert"
    /\ \E dbUp \in BOOLEAN :
          flusher' = [flusher EXCEPT !.pc = IF dbUp THEN "wait" ELSE "loop"]
    /\ UNCHANGED <<feedback_buffer, caller, should_stop, embeddingVars, agentVars, apiVars>>

\* line 258: should_stop.wait(flush_interval) returns
FlushWake ==
    /\ flusher.pc = "wait"
    /\ flusher' = [flusher EXCEPT !.pc = "loop"]
    /\ UNCHANGED <<feedback_buffer, caller, should_stop, embeddingVars, agentVars, apiVars>>

\* close, line 275
Close ==
    /\ ~should_stop
    /\ should_stop' = TRUE
    /\ UNCHANGED <<feedback_buffer, flusher, caller, embeddingVars, agentVars, apiVars>>

NextFeedback ==
    \/ SubmitPut
    \/ SubmitReturn
    \/ FlushLoop
    \/ FlushGet
    \/ FlushDrained
    \/ FlushInsert
    \/ FlushWake
    \/ Close

SpecFeedback == Init /\ [][NextFeedback]_vars

\* ---------------------------------------------------------------- profile update
\* PUT /update of src/app/api/profile.py for one user, with the Redis cache
\* of src/app/api/utils/cache.py. The handler has no suspension point between
\* its statements, so it runs from entry to return as one step.
ReviewFields == {"name", "bio", "photos"}

\* model_dump(exclude_none=True) leaves a field out when it is None
IsNone(field, v) == IF field = "photos" THEN v = NullList ELSE v = Null

\* line 189: None, "" or an empty list
IsEmptyValue(field, v) ==
    IF field = "photos" THEN v = NullList \/ v = <<>> ELSE v = Null \/ v = ""

\* str(value): a string is itself, a list is its repr, None is "None"
Str(field, v) ==
    IF field = "photos"
    THEN CASE v = <<>>         -> "[]"
           [] v = <<"a.jpg">>  -> "['a.jpg']"
           [] v = <<"b.jpg">>  -> "['b.jpg']"
           [] OTHER            -> "None"
    ELSE IF v = Null THEN "None" ELSE v

\* the loop with every field in the `else` branch of line 202
NeedsReviewNever(field, current_value) == FALSE

\* lines 185-201: a review field whose current value is not empty
NeedsReview(field, current_value) ==
    field \in ReviewFields /\ ~IsEmptyValue(field, current_value)

UpdateRequest(name, bio, photo_list, geographical_location) ==
    [name |-> name, bio |-> bio, photos |-> photo_list,
     geographical_location |-> geographical_location]

UpdateRequests ==
    { UpdateRequest("Ann", Null, NullList, Null),
      UpdateRequest("Bob", "hi", NullList, "Oslo"),
      UpdateRequest(Null, "yo", <<"a.jpg">>, Null),
      UpdateRequest("", Null, <<>>, Null),
      UpdateRequest(Null, Null, <<"b.jpg">>, "Rome"),
      UpdateRequest(Null, Null, NullList, Null) }

\* update_user_cache: setex of json.dumps(profile_data); json.loads of it
\* gives the same strings, lists and nulls back
Cached(row) == [present |-> TRUE, row |-> row]

\* get_user_by_id: the cached row when the key is there, else the table's
GetUserById(cache, row) == IF cache.present THEN cache.row ELSE row

\* lines 193-201 (the uuid is <<number of the call, attribute>>)
ReviewEntry(n, field, current_value, new_value) ==
    [id |-> <<n, field>>, attribute |-> field,
     current_value |-> Str(field, current_value),
     proposed_value |-> Str(field, new_value), review_status |-> "pending"]

ProfileReturn(outcome, request, direct, reviewed) ==
    [op |-> "update", outcome |-> outcome, request |-> request,
     direct |-> direct, reviewed |-> reviewed]

\* update_user_profile, lines 164-233, entry to return; an exception of the
\* update or of the insert statement is answered with HTTP 500 (232-233)
UpdateUserProfile(request) ==
    /\ nupdates < MaxUpdates
    /\ nupdates' = nupdates + 1
    /\ LET update_data     == {f \in RequestFields : ~IsNone(f, request[f])}
           current_profile == GetUserById(user_cache, profile)
           reviewed        == {f \in update_data : NeedsReview(f, current_profile[f])}
           direct          == update_data \ reviewed
           updated         == [f \in DOMAIN profile |->
                                  IF f \in direct THEN request[f] ELSE profile[f]]
           entries         == {ReviewEntry(nupdates + 1, f, current_profile[f], request[f])
                                  : f \in reviewed}
       IN  IF update_data = {}
           THEN /\ pret' = ProfileReturn("http500", request, {}, {})
                /\ UNCHANGED <<profile, user_cache, profile_reviews>>
           ELSE \E upUp \in BOOLEAN, revUp \in BOOLEAN :
                   /\ direct = {} => upUp
                   /\ (reviewed = {} \/ ~upUp) => revUp
                   /\ profile' = IF upUp THEN updated ELSE profile
                   /\ user_cache' = IF upUp /\ direct # {} THEN Cached(updated)
                                    ELSE Cached(current_profile)
                   /\ profile_reviews' = IF upUp /\ revUp /\ reviewed # {}
                                         THEN profile_reviews \cup entries
                                         ELSE profile_reviews
                   /\ pret' = ProfileReturn(IF upUp /\ (revUp \/ reviewed = {})
                                            THEN "ok" ELSE "http500",
                                            request, IF upUp THEN direct ELSE {},
                                            IF upUp /\ revUp THEN reviewed ELSE {})
    /\ UNCHANGED <<embeddingVars, agentVars, feedbackVars, chatVars>>

\* GET /me: get_user_by_id fills the cache on a miss
GetMyProfile ==
    /\ ~user_cache.present
    /\ user_cache' = Cached(profile)
    /\ UNCHANGED <<profile, profile_reviews, nupdates, pret>>
    /\ UNCHANGED <<embeddingVars, agentVars, feedbackVars, chatVars>>

\* the key was stored with setex and CACHE_TTL: Redis drops it when the TTL
\* has run out
CacheExpire ==
    /\ user_cache.present
    /\ user_cache' = NotCached
    /\ UNCHANGED <<profile, profile_reviews, nupdates, pret>>
    /\ UNCHANGED <<embeddingVars, agentVars, feedbackVars, chatVars>>

\* update_profile_status of src/app/utils/telegram.py: writes the table and
\* leaves the cached row as it is
UpdateProfileStatus(status) ==
    /\ profile.verification_status # status
    /\ profile' = [profile EXCEPT !.verification_status = status]
    /\ UNCHANGED <<user_cache, profile_reviews, nupdates, pret>>
    /\ UNCHANGED <<embeddingVars, agentVars, feedbackVars, chatVars>>

NextProfile ==
    \/ \E request \in UpdateRequests : UpdateUserProfile(request)
    \/ GetMyProfile
    \/ CacheExpire
    \/ \E status \in {"approved", "rejected"} : UpdateProfileStatus(status)

SpecProfile == Init /\ [][NextProfile]_vars

\* ---------------------------------------------------------------- chat websocket
\* /chat of src/app/api/chat_ws.py in one server process (the connections
\* and the counters live in the process). Every connection has a handler
\* coroutine; the handlers interleave where one awaits its websocket: at
\* receive_text and at the send_json calls.

\* the agent's interaction frequencies found in the table
Freqs == {1, 2}

\* ConversationData(-1, '', initiator) resp. interaction_freq = None: the
\* conversation has no agent
NoAgentFreq == -1

Peer(u) == IF u = "u1" THEN "u2" ELSE "u1"

Running(h) == h.pc \notin {"disconnected", "errored"}

\* send_json on the websocket active_connections holds for the user raises
\* when that websocket is closed
SendRaises(u) ==
    active_connections[u] # 0 /\ ~Running(handlers[active_connections[u]])

\* send_message returns False without sending when the user has no entry
Reached(u) == active_connections[u] # 0 /\ ~SendRaises(u)

\* the check of lines 110-113 that finds nothing
ActiveBombsUnseen(rows, user_ids) == {}

\* line 110: the active truth bombs of the pair
ActiveBombs(rows, user_ids) ==
    {i \in 1..Len(rows) : /\ rows[i].user_id1 = user_ids[1]
                          /\ rows[i].user_id2 = user_ids[2]
                          /\ rows[i].status}

\* lines 141-148; approvers and sent_to record who approved and who was sent
\* the content, sent that lines 293-294 have both run
NewBomb(user_ids) ==
    [user_id1 |-> user_ids[1], user_id2 |-> user_ids[2],
     approve1 |-> FALSE, approve2 |-> FALSE, status |-> TRUE,
     approvers |-> {}, sent_to |-> {}, sent |-> FALSE]

NewHandler(user_id) == [user |-> user_id, pc |-> "receive", bomb |-> 0, gen |-> "none"]

\* manager.connect, lines 20-23: the entry of a connected user is replaced
Connect(user_id) ==
    /\ Len(handlers) < MaxSockets
    /\ handlers' = Append(handlers, NewHandler(user_id))
    /\ active_connections' = [active_connections EXCEPT ![user_id] = Len(handlers) + 1]
    /\ UNCHANGED <<truth_bombs, conversation_count, chat_log>>
    /\ UNCHANGED <<embeddingVars, agentVars, feedbackVars, profileVars>>

\* lines 382-383: receive_text raises WebSocketDisconnect, manager.disconnect
\* deletes the entry of the user
ClientDisconnect(n) ==
    /\ handlers[n].pc = "receive"
    /\ handlers' = [handlers EXCEPT ![n].pc = "disconnected"]
    /\ active_connections' = [active_connections EXCEPT ![handlers[n].user] = 0]
    /\ UNCHANGED <<truth_bombs, conversation_count, chat_log>>
    /\ UNCHANGED <<embeddingVars, agentVars, feedbackVars, profileVars>>

\* lines 257-261 and 385-387: a received text that json.loads or ChatMessage
\* rejects raises out of the loop; the handler closes its websocket
BadFrame(n) ==
    /\ handlers[n].pc = "receive"
    /\ handlers' = [handlers EXCEPT ![n].pc = "errored"]
    /\ UNCHANGED <<active_connections, truth_bombs, conversation_count, chat_log>>
    /\ UNCHANGED <<embeddingVars, agentVars, feedbackVars, profileVars>>

\* lines 306-322 and increase_count up to its first suspension. outcome is
\* <<count, pc, gen, rows>> after the step.
CountOutcomes(cc, user_ids) ==
    IF ~cc.known
    THEN {<<[known |-> TRUE, interaction_freq |-> f, current_count |-> 1],
            "ack", "none", truth_bombs, FALSE>> : f \in Freqs \cup {NoAgentFreq}}
    ELSE IF cc.interaction_freq = NoAgentFreq \/ cc.current_count + 1 < cc.interaction_freq
    THEN {<<[cc EXCEPT !.current_count = @ + 1], "ack", "none", truth_bombs, FALSE>>}
    ELSE IF ActiveBombs(truth_bombs, user_ids) # {}
    THEN {<<[cc EXCEPT !.current_count = 0], "ack", "skipped", truth_bombs, TRUE>>}
    ELSE {<<[cc EXCEPT !.current_count = @ + 1], "init_send", "generated",
            Append(truth_bombs, NewBomb(user_ids)), TRUE>>,
          <<[cc EXCEPT !.current_count = @ + 1], "ack", "raised", truth_bombs, TRUE>>}

ReceiveMessage(n) ==
    /\ handlers[n].pc = "receive"
    /\ handlers[n].user \in ChatPair
    /\ chat_log.nmsg < MaxMsgs
    /\ LET user_id == handlers[n].user
           hash    == GetHash(user_id, Peer(user_id))
       IN  \E o \in CountOutcomes(conversation_count[hash], Sorted2(user_id, Peer(user_id))) :
              /\ conversation_count' = [conversation_count EXCEPT ![hash] = o[1]]
              /\ handlers' = [handlers EXCEPT ![n].pc = o[2], ![n].gen = o[3]]
              /\ truth_bombs' = o[4]
              /\ chat_log' = [chat_log EXCEPT
                                 !.nmsg = @ + 1,
                                 !.triggered = IF o[5] THEN @ \cup {chat_log.nmsg + 1} ELSE @]
    /\ UNCHANGED active_connections
    /\ UNCHANGED <<embeddingVars, agentVars, feedbackVars, profileVars>>

\* lines 158-170 and 211-214: the two truth_bomb_init sends, then the
\* counter is set to 0; a send that raises reaches the handler of line 165,
\* whose `websocket` is no name of the function, and increase_count prints
\* the NameError and leaves the counter as it is
InitSent(n) ==
    /\ handlers[n].pc = "init_send"
    /\ LET user_id == handlers[n].user
           hash    == GetHash(user_id, Peer(user_id))
           raised  == SendRaises(user_id) \/ SendRaises(Peer(user_id))
       IN  /\ conversation_count' =
                 IF raised THEN conversation_count
                 ELSE [conversation_count EXCEPT ![hash].current_count = 0]
           /\ handlers' = [handlers EXCEPT ![n].pc = "ack",
                                           ![n].gen = IF raised THEN "raised" ELSE @]
    /\ UNCHANGED <<active_connections, truth_bombs, chat_log>>
    /\ UNCHANGED <<embeddingVars, agentVars, feedbackVars, profileVars>>

\* lines 324-380: the acknowledgement and the forwarding of the message; an
\* exception is answered with an error message to the sender
AckAndForward(n) ==
    /\ handlers[n].pc = "ack"
    /\ handlers' = [handlers EXCEPT ![n].pc = "receive", ![n].gen = "none"]
    /\ UNCHANGED <<active_connections, truth_bombs, conversation_count, chat_log>>
    /\ UNCHANGED <<embeddingVars, agentVars, feedbackVars, profileVars>>

\* lines 274-279: approve1 for the first id of the sorted pair, approve2 for
\* every other sender
Approve(row, user_id) ==
    IF user_id = Sorted2(row.user_id1, row.user_id2)[1]
    THEN [row EXCEPT !.approve1 = TRUE, !.approvers = @ \cup {user_id}]
    ELSE [row EXCEPT !.approve2 = TRUE, !.approvers = @ \cup {user_id}]

\* lines 263-285: a truth_bomb_approved message for the id b. An id without
\* a row makes .single() raise; the name `exception` of line 299 is not
\* defined, so any exception of the block leaves the loop (385-387).
ReceiveApproval(n, b) ==
    /\ handlers[n].pc = "receive"
    /\ IF b \notin 1..Len(truth_bombs)
       THEN /\ handlers' = [handlers EXCEPT ![n].pc = "errored"]
            /\ UNCHANGED truth_bombs
       ELSE LET updated_bomb == Approve(truth_bombs[b], handlers[n].user)
            IN  /\ truth_bombs' = [truth_bombs EXCEPT ![b] = updated_bomb]
                /\ handlers' = [handlers EXCEPT
                                   ![n].pc = IF updated_bomb.approve1 /\ updated_bomb.approve2
                                             THEN "bomb_send" ELSE "receive",
                                   ![n].bomb = IF updated_bomb.approve1 /\ updated_bomb.approve2
                                               THEN b ELSE 0]
    /\ UNCHANGED <<active_connections, conversation_count, chat_log>>
    /\ UNCHANGED <<embeddingVars, agentVars, feedbackVars, profileVars>>

\* lines 293-294: the content goes to user_id1, then to user_id2
Delivered(row) ==
    IF SendRaises(row.user_id1)
    THEN row
    ELSE LET one == [row EXCEPT !.sent_to = @ \cup (IF Reached(row.user_id1)
                                                    THEN {row.user_id1} ELSE {})]
         IN  IF SendRaises(row.user_id2)
             THEN one
             ELSE [one EXCEPT !.sent_to = @ \cup (IF Reached(row.user_id2)
                                                  THEN {row.user_id2} ELSE {}),
                              !.sent = TRUE]

\* lines 293-304 and 385-387: the sends, then the update of line 297 whose
\* `false` is no name of Python: the NameError (like an exception of a
\* send) leaves the loop, the row keeps status = True and the handler
\* closes its websocket
BombSent(n) ==
    /\ handlers[n].pc = "bomb_send"
    /\ truth_bombs' = [truth_bombs EXCEPT ![handlers[n].bomb] = Delivered(@)]
    /\ handlers' = [handlers EXCEPT ![n].pc = "errored", ![n].bomb = 0]
    /\ UNCHANGED <<active_connections, conversation_count, chat_log>>
    /\ UNCHANGED <<embeddingVars, agentVars, feedbackVars, profileVars>>

NextChat ==
    \/ \E u \in ChatUsers : Connect(u)
    \/ \E n \in 1..Len(handlers) : ClientDisconnect(n)
    \/ \E n \in 1..Len(handlers) : BadFrame(n)
    \/ \E n \in 1..Len(handlers) : ReceiveMessage(n)
    \/ \E n \in 1..Len(handlers) : InitSent(n)
    \/ \E n \in 1..Len(handlers) : AckAndForward(n)
    \/ \E n \in 1..Len(handlers), b \in 1..(Len(truth_bombs) + 1) : ReceiveApproval(n, b)
    \/ \E n \in 1..Len(handlers) : BombSent(n)

SpecChat == Init /\ [][NextChat]_vars

\* ================================================================ properties
IsSearch == resp.op \in {"app", "legacy"}
Answered == IsSearch /\ resp.outcome = "ok"

\* the rows a search ranks, stated on the table: the rows of other users
\* (app) resp. of the agent and filter (legacy), of the query's dimension
Candidates ==
    LET q == Encode(resp.query)
    IN  IF resp.op = "app"
        THEN {r \in store : /\ r.user_id # resp.requester
                            /\ Len(r.embedding) = Len(q)
                            /\ Cosine(q, r.embedding) > AppThreshold}
        ELSE {r \in LegacyFiltered(store, resp.agent_id, resp.filter) :
                  Len(r.embedding) = Len(q)}

\* ---------------------------------------------------------------- C1
SameIngestTwice(a, b) ==
    /\ a # b
    /\ w[a].pc = "done" /\ w[b].pc = "done"
    /\ w[a].req = w[b].req
    /\ Len(w[a].req.items) = 1
    /\ w[a].id \in w[b].after

\* C1: when the same (owner_id, embedding_type, item) has been ingested
\* twice, the second call begun after the first returned, exactly one live
\* record of the key is in the record store.
C1_IdempotentIngest ==
    \A a \in Workers, b \in Workers :
        SameIngestTwice(a, b) =>
            Cardinality(Live(<<w[b].req.user_id, w[b].req.embedding_type>>)) = 1

\* ---------------------------------------------------------------- C2
\* C2: the results of every answered search are in non-increasing order of
\* similarity_score.
C2_ResultsSorted ==
    Answered =>
        \A i \in 1..(Len(resp.results) - 1) :
            resp.results[i].similarity_score >= resp.results[i + 1].similarity_score

\* a response of two results with different scores whose rows were scanned
\* in the opposite order
C2_Witness ==
    /\ Answered
    /\ Len(resp.results) >= 2
    /\ resp.results[1].similarity_score > resp.results[2].similarity_score
    /\ IdLess(resp.results[2].rid, resp.results[1].rid)

\* ---------------------------------------------------------------- C3
\* C3: no owner_id appears twice in the results of one answered search.
C3_NoOwnerRepeats ==
    Answered =>
        \A i \in 1..Len(resp.results), j \in 1..Len(resp.results) :
            i # j => resp.results[i].response_id # resp.results[j].response_id

\* ---------------------------------------------------------------- C4
\* C4: the requester's own owner_id is in no result of an answered search,
\* on the manager methods and on the route.
C4_RequesterExcluded ==
    (resp.op \in {"app", "legacy", "endpoint"} /\ resp.outcome = "ok") =>
        \A i \in 1..Len(resp.results) : resp.results[i].response_id # resp.requester

\* ---------------------------------------------------------------- C5
SearchRan == resp.store_up /\ ~EncodeFails(resp.query)

\* C5 as stated: a search with page_size = 0, whichever way it is requested
\* (manager method or route), answers with an empty results list and a
\* total_matches equal to the number of matches found.
C5_PageSizeZero ==
    (resp.op \in {"app", "endpoint"} /\ resp.per_page = 0 /\ SearchRan) =>
        /\ resp.outcome = "ok"
        /\ resp.results = <<>>
        /\ resp.total_matches = Cardinality(Candidates)

\* C5 amended: the app manager's search with per_page = 0 answers with an
\* empty results list and total_matches equal to the number of matching rows;
\* the route rejects per_page = 0 and answers no search.
C5_PageSizeZeroManager ==
    /\ (resp.op = "app" /\ resp.per_page = 0 /\ SearchRan) =>
            /\ resp.outcome = "ok"
            /\ resp.results = <<>>
            /\ resp.total_matches = Cardinality(Candidates)
    /\ (resp.op = "endpoint" /\ resp.per_page = 0) => resp.outcome = "http422"

C5_Witness ==
    /\ resp.op = "app" /\ resp.outcome = "ok"
    /\ resp.per_page = 0
    /\ resp.total_matches >= 2

\* ---------------------------------------------------------------- C6
\* C6: a search over an empty record store answers without an error, with
\* no results, total_matches 0 and max and mean similarity 0.
C6_EmptyStore ==
    (IsSearch /\ store = {} /\ SearchRan) =>
        /\ resp.outcome = "ok"
        /\ resp.results = <<>>
        /\ resp.total_matches = 0
        /\ resp.max_similarity = 0
        /\ resp.mean_similarity.num = 0

C6_Witness == Answered /\ store = {} /\ resp.total_matches = 0

\* ---------------------------------------------------------------- C7
\* the owners left after requester exclusion, threshold and deduplication
\* (the legacy threshold is relative to the best score)
MatchingOwners ==
    LET q    == Encode(resp.query)
        best == CHOOSE m \in {Cosine(q, r.embedding) : r \in Candidates} :
                    \A r \in Candidates : Cosine(q, r.embedding) <= m
        kept == IF resp.op = "app" THEN Candidates
                ELSE {r \in Candidates : RelativeKept(Entry(r, q), best)}
    IN  {r.user_id : r \in {x \in kept : x.user_id # resp.requester}}

\* C7: total_matches is the number of candidates left after requester
\* exclusion, owner deduplication and threshold, before truncation.
C7_TotalMatches ==
    Answered => resp.total_matches = Cardinality(MatchingOwners)

\* ---------------------------------------------------------------- C8
HasFailingItem(items) == \E i \in 1..Len(items) : EncodeFails(items[i])
GoodItems(items) == {i \in 1..Len(items) : ~EncodeFails(items[i])}

\* C8: an ingest call whose batch holds an item that fails to encode does
\* not raise, and the other items of the batch are encoded and stored.
C8_PartialFailure ==
    \A wk \in Workers :
        (Finished(w[wk]) /\ HasFailingItem(w[wk].req.items)) =>
            /\ w[wk].pc = "done"
            /\ Len(w[wk].embs) = Cardinality(GoodItems(w[wk].req.items))

\* ---------------------------------------------------------------- C9
\* C9: an ingest call executes its delete statement only after every item
\* of its batch has been encoded.
C9_EncodeBeforeDelete ==
    [][\A wk \in Workers :
          (w[wk].pc = "delete" /\ w'[wk].pc # "delete") =>
              Len(w[wk].embs) = Len(w[wk].req.items)]_vars

\* ---------------------------------------------------------------- C10
BothReingested(a, b) ==
    /\ a # b
    /\ w[a].pc = "done" /\ w[b].pc = "done"
    /\ w[a].impl = "app" /\ w[b].impl = "app"
    /\ w[a].del_ok /\ w[b].del_ok
    /\ w[a].req.user_id = w[b].req.user_id
    /\ w[a].req.embedding_type = w[b].req.embedding_type
    /\ w[a].at < w[b].at

\* C10: once two re-ingestions of one key have both completed, the live
\* records of the key are the ones of the call that appended last.
C10_LastWriteWins ==
    \A a \in Workers, b \in Workers :
        BothReingested(a, b) =>
            Live(<<w[b].req.user_id, w[b].req.embedding_type>>) = NewRows(w[b], w[b].at)

\* ---------------------------------------------------------------- C11
\* C11: a search whose record-store query fails raises to its caller: it
\* does not answer, with an empty or a partial result list, in place of the
\* failure; the route answers with an error status, never with a result set.
C11_QueryFailureRaises ==
    /\ (IsSearch /\ ~resp.store_up) =>
            /\ resp.outcome = "raised"
            /\ resp.results = <<>>
    /\ resp.op = "endpoint" => resp.outcome \in {"http422", "http500"}

\* the query of a search over a table holding rows of other users failed
C11_Witness ==
    /\ resp.op = "app" /\ resp.outcome = "raised"
    /\ ~resp.store_up /\ ~EncodeFails(resp.query)
    /\ \E r \in store : r.user_id # resp.requester

\* ---------------------------------------------------------------- C12
\* C12: an ingest call during which the record store is unreachable, at the
\* delete of the key's records or at the append, raises and appends no
\* record of its batch.
C12_StoreFailureFailsBatch ==
    \A wk \in Workers :
        (Finished(w[wk]) /\ w[wk].impl = "app" /\ ~w[wk].del_ok) =>
            /\ w[wk].pc = "raised"
            /\ w[wk].at = 0

\* ---------------------------------------------------------------- C13
SameDimension(r) == Len(r.embedding) = Len(Encode(resp.query))

\* C13: a search that meets a stored vector of another length than the
\* query's skips the row: the row is in no result and is not counted in
\* total_matches, and the search answers from the remaining rows.
C13_DimensionMismatchSkipped ==
    (IsSearch /\ SearchRan) =>
        /\ resp.outcome = "ok"
        /\ \A i \in 1..Len(resp.results) :
              \A r \in store : r.id = resp.results[i].rid => SameDimension(r)
        /\ resp.total_matches = Cardinality(Candidates)

\* an answered search over a table with a row of another dimension and a
\* row that matches
C13_Witness ==
    /\ resp.op = "app" /\ resp.outcome = "ok"
    /\ \E r \in store : r.user_id # resp.requester /\ ~SameDimension(r)
    /\ resp.total_matches >= 1

\* ---------------------------------------------------------------- C14
LiveIds == {r.id : r \in store}

\* C14: every result of an answered search is a row the table holds now: a
\* row that an ingest call completed before the search has deleted, to
\* replace it, is in no result.
C14_OnlyLiveRecords ==
    Answered =>
        \A i \in 1..Len(resp.results) : resp.results[i].rid \in LiveIds

\* the rows of the first append are gone, and the search returns a row of
\* the second
C14_Witness ==
    /\ Answered
    /\ nappends = 2
    /\ \A r \in store : r.id[1] = 2
    /\ Len(resp.results) >= 1
    /\ resp.results[1].rid[1] = 2

\* ---------------------------------------------------------------- C15
\* the second of two successive searches of one requester for queries whose
\* vectors are the same (cosine 1, at or above every threshold)
RepeatedSearch ==
    /\ resp.op = "app" /\ resp.outcome = "ok"
    /\ resp'.op = "app"
    /\ resp'.requester = resp.requester
    /\ resp'.per_page = resp.per_page
    /\ resp'.query = resp.query

\* C15: the second of two searches with query vectors of cosine at or above
\* the threshold answers with the result set of the first and without a
\* record-store search: it answers also while the store is unreachable.
C15_SecondSearchFromCache ==
    [][RepeatedSearch =>
          /\ resp'.outcome = "ok"
          /\ resp'.results = resp.results]_vars

\* ---------------------------------------------------------------- C16
\* C16: every vector in the record store has norm 1.
C16_StoredVectorsNormalized ==
    \A r \in store : Norm(r.embedding) = 1

\* ---------------------------------------------------------------- C17
\* the synced user's photo_* rows
PhotoRows == ExistingPhotoRows(store, SyncUser)

EveryPhotoStored ==
    /\ resp.op = "sync" /\ resp.outcome = "success"
    /\ resp.embeddings_created = Len(photos)
    /\ resp.deletes_ok

\* C17: after a sync that returned success with every current photo fetched
\* and stored (and every DELETE it issued executed), the user's photo_* rows are one per profile photo, row
\* photo_i holding photos[i], and no other photo_* row of the user is left.
C17_SyncMatchesProfile ==
    EveryPhotoStored =>
        /\ Cardinality(PhotoRows) = Len(photos)
        /\ \A i \in 1..Len(photos) :
              \E r \in PhotoRows : /\ r.embedding_type = PhotoType(i - 1)
                                   /\ r.photo_path = photos[i]

\* ---------------------------------------------------------------- C18
AnalyzeReturned == aret.op = "analyze_message" /\ aret.outcome = "returned"

\* the call that returned last was not the first of its key inside the TTL
\* window
SecondCallWithinTTL ==
    /\ AnalyzeReturned
    /\ first[CacheKey(aret.message, aret.persona_id)].calls >= 2

\* C18: an analyze_message call with the message and persona_id of an
\* earlier call, made within the cache TTL of that call, returns a result
\* equal to the earlier call's and runs no _generate_analysis.
C18_SecondCallCached ==
    SecondCallWithinTTL =>
        /\ aret.result = first[CacheKey(aret.message, aret.persona_id)].result
        /\ ~aret.generated

\* a second call of a key, one tick after the first, while another key is
\* cached too
C18_Witness ==
    /\ SecondCallWithinTTL
    /\ first[CacheKey(aret.message, aret.persona_id)].age >= 1
    /\ \E k \in CacheKeys : k # CacheKey(aret.message, aret.persona_id) /\ redis[k].ttl > 0

\* ---------------------------------------------------------------- C19
\* C19: a generate_response call during which _generate_analysis or the LLM
\* call raised returns the persona's fallback response, which is not empty;
\* the exception does not reach the caller.
C19_FallbackResponse ==
    (aret.op = "generate_response" /\ (aret.analysis_raised \/ aret.llm_raised)) =>
        /\ aret.outcome = "returned"
        /\ aret.content = FallbackResponse(aret.template)
        /\ aret.content # ""

\* ---------------------------------------------------------------- C20
\* C20: at the return of submit_feedback the feedback buffer is not empty.
C20_BufferedAtReturn ==
    [][(caller.pc = "update" /\ caller'.pc = "returned") =>
          feedback_buffer' # <<>>]_vars

\* ---------------------------------------------------------------- C22
ResultIds == {resp.results[i].rid : i \in 1..Len(resp.results)}

\* the candidates of the answered search that are not on the page
LeftOut == {r \in Candidates : r.id \notin ResultIds}

\* C22: the page of an answered search has at most page_size entries, and
\* no candidate left out of the page has a similarity_score strictly greater
\* than that of a returned result.
C22_TopPage ==
    Answered =>
        /\ Len(resp.results) <= resp.per_page
        /\ \A r \in LeftOut : \A i \in 1..Len(resp.results) :
               Cosine(Encode(resp.query), r.embedding)
                   <= resp.results[i].similarity_score

\* a full page with a candidate of a strictly lower score left out
C22_Witness ==
    /\ Answered
    /\ resp.per_page >= 1
    /\ Len(resp.results) = resp.per_page
    /\ \E r \in LeftOut :
           Cosine(Encode(resp.query), r.embedding)
               < resp.results[Len(resp.results)].similarity_score

\* ---------------------------------------------------------------- C23
IngestRaised ==
    /\ resp'.op \in {"create_text_embeddings", "create_embeddings"}
    /\ resp'.outcome = "raised"

\* C23: an ingest call that raises leaves the live records of its key, and
\* so the whole table, exactly as they were before the call.
C23_FailedIngestKeepsRecords == [][IngestRaised => store' = store]_vars

\* ---------------------------------------------------------------- C24
CallKey(c) == <<c.req.user_id, c.req.embedding_type>>

RowsOutside(rows, k) == {r \in rows : Key(r) # k}

\* C24: every step of an ingest call leaves the records of every key other
\* than the call's own (owner_id, embedding_type) as they are, whatever the
\* other instances are doing.
C24_OnlyOwnKey ==
    [][\A wk \in Workers :
          (w'[wk] # w[wk]) =>
              RowsOutside(store', CallKey(w'[wk])) = RowsOutside(store, CallKey(w'[wk]))]_vars

\* a re-ingestion has deleted its key while a call for another key, running
\* at the same time, has stored its row, and the owner has a row of another
\* embedding_type
C24_Witness ==
    \E a \in Workers, b \in Workers :
        /\ a # b
        /\ w[a].pc = "encode" /\ w[a].impl = "app" /\ w[a].del_ok
        /\ w[b].pc = "done"
        /\ CallKey(w[a]) # CallKey(w[b])
        /\ w[b].id \notin w[a].after /\ w[a].id \notin w[b].after
        /\ Live(CallKey(w[b])) # {}
        /\ \E r \in store : r.user_id = w[a].req.user_id
                              /\ r.embedding_type # w[a].req.embedding_type

\* ---------------------------------------------------------------- C25
\* C25: an answered search, of either manager, that found a candidate
\* (total_matches > 0) and was asked for a page of at least one entry
\* returns a non-empty results list whose first entry's similarity_score is
\* meta.max_similarity.
C25_FirstIsMax ==
    (Answered /\ resp.total_matches > 0 /\ resp.per_page >= 1) =>
        /\ resp.results # <<>>
        /\ resp.results[1].similarity_score = resp.max_similarity

\* ---------------------------------------------------------------- C21
Asked(f) == ~IsNone(f, pret'.request[f])

\* the entry of profile_reviews the step has created for field f
ReviewCreated(f) ==
    \E r \in profile_reviews' \ profile_reviews :
        /\ r.attribute = f
        /\ r.current_value = Str(f, profile[f])
        /\ r.proposed_value = Str(f, pret'.request[f])
        /\ r.review_status = "pending"

\* C21: update_user_profile writes a new name, bio or photos value to the
\* profile only when the profile's current value of the field is null or
\* empty; when the field has a value the profile keeps it and a pending
\* profile_reviews entry with the current and the proposed value is created;
\* every other requested field is written directly.
C21_ReviewGating ==
    [][(nupdates' = nupdates + 1) =>
          \A f \in RequestFields :
              /\ (f \in ReviewFields /\ profile'[f] # profile[f]) =>
                     /\ Asked(f)
                     /\ IsEmptyValue(f, profile[f])
                     /\ profile'[f] = pret'.request[f]
              /\ (pret'.outcome = "ok" /\ Asked(f) /\ f \in ReviewFields
                    /\ ~IsEmptyValue(f, profile[f])) =>
                     /\ profile'[f] = profile[f]
                     /\ ReviewCreated(f)
              /\ (pret'.outcome = "ok" /\ Asked(f) /\ f \notin ReviewFields) =>
                     profile'[f] = pret'.request[f]]_vars

\* one answered call that has written an empty review field and another
\* field directly and has put a field that had a value under review
C21_Witness ==
    /\ pret.op = "update" /\ pret.outcome = "ok"
    /\ pret.reviewed # {}
    /\ pret.direct \cap ReviewFields # {}
    /\ pret.direct \ ReviewFields # {}
    /\ \A f \in pret.direct : profile[f] = pret.request[f]
    /\ \A f \in pret.reviewed :
          /\ profile[f] # pret.request[f]
          /\ \E r \in profile_reviews :
                r.attribute = f /\ r.current_value = Str(f, profile[f])
                                /\ r.proposed_value = Str(f, pret.request[f])

\* ---------------------------------------------------------------- C28
\* the rows of the table with status true for the two users
ActiveRows(a, b) ==
    {i \in 1..Len(truth_bombs) : /\ {truth_bombs[i].user_id1, truth_bombs[i].user_id2} = {a, b}
                                 /\ truth_bombs[i].status}

C26_BothParticipantsApproved ==
    \A i \in 1..Len(truth_bombs) :
        LET row == truth_bombs[i]
        IN  /\ row.approve1 => row.user_id1 \in row.approvers
            /\ row.approve2 => row.user_id2 \in row.approvers
            /\ row.sent_to # {} => {row.user_id1, row.user_id2} \subseteq row.approvers

\* ---------------------------------------------------------------- C27
\* C27: a truth bomb that both participants approved and whose content was
\* sent is inactive (status false), so that the pair has no active truth
\* bomb when its counter reaches the frequency again.
C27_SentIsInactive ==
    \A i \in 1..Len(truth_bombs) : truth_bombs[i].sent => ~truth_bombs[i].status

\* ---------------------------------------------------------------- C29
\* no handler is between the insert of a truth bomb and the reset of the
\* counter
NoneGenerating == \A n \in 1..Len(handlers) : handlers[n].pc # "init_send"

\* C29: for a pair whose agent has the interaction frequency f >= 1,
\* generation is triggered exactly on the messages f, 2f, 3f, ... of the
\* pair, counted over both directions from the first message, and the
\* counter is back at 0 after each trigger.
C29_EveryFthMessage ==
    \A h \in Hashes :
        LET cc == conversation_count[h]
        IN  (cc.known /\ cc.interaction_freq >= 1) =>
                /\ chat_log.triggered =
                       {k \in 1..chat_log.nmsg : k % cc.interaction_freq = 0}
                /\ NoneGenerating =>
                       cc.current_count = chat_log.nmsg % cc.interaction_freq

\* ---------------------------------------------------------------- C30
\* C30: a user has an entry in active_connections exactly while a chat
\* websocket of the user is open, and the entry is that of an open one.
C30_ConnectionsTracked ==
    \A u \in ChatUsers :
        /\ active_connections[u] # 0 <=>
               \E n \in 1..Len(handlers) : handlers[n].user = u /\ Running(handlers[n])
        /\ active_connections[u] # 0 => Running(handlers[active_connections[u]])

====
